---- MODULE Spec2Model ----
(***************************************************************************)
(* Documentation cache, documentation generation and edit-impact analysis  *)
(* of tools/documentation (cache.py, generator.py, context.py, handler.py).*)
(*                                                                         *)
(* Representation of Python values                                         *)
(*   str        a non-empty sequence of lines, the image of s.split('\n'); *)
(*              a line is given by its number of whitespace-separated      *)
(*              words (the line "w w ... w"), so '' is <<0>>;              *)
(*   documentation  [kind |-> "str", lines |-> s] for a text, or           *)
(*              [kind |-> "dict", tree, contents, relationships] for the   *)
(*              bundle the handler builds;                                 *)
(*   dict (metadata)  a set of items [kt, k, vt, v]: key type, key text,   *)
(*              value type, value text;                                    *)
(*   file       "absent", "unreadable" (open() raises) or its content;     *)
(*   source     a file content or an edit is named by a text whose syntax  *)
(*              tree Parse gives; a relative path or an import is a        *)
(*              sequence of tokens;                                        *)
(*   path argument  the repository root, a file of it, or a file outside   *)
(*              every repository; the root also written with a trailing    *)
(*              separator, and the root of a second repository.            *)
(***************************************************************************)
EXTENDS Integers, Sequences, FiniteSets, TLC

VARIABLES
    files,      \* the repository's files: path -> "absent" | "unreadable" | content
    now,        \* time.time()
    entry,      \* the cache file of the repository under ~/.cache/llm_docs
    snap,       \* history: the files as they were at the last cache_doc write
    last,       \* the last call and what it returned ("env": no call since a change)
    relationships,  \* the relationship graph: (path, record) pairs in dict order
    report,     \* the last impact analysis: edited file, modified elements, result
    current_repo,   \* DocumentationHandler.current_repo
    loaded_chunks,  \* DocumentationHandler.loaded_chunks: repo path -> list of chunks
    outer_repo, \* layout: a directory above the repository root holds a marker directory
    writing,    \* the cache_doc calls that hold the cache file open: process -> entry
    other_entries   \* the cache files of the other keys: cache path -> entry

handler == <<current_repo, loaded_chunks, outer_repo>>

vars ==
    <<files, now, entry, snap, last, relationships, report, handler, writing,
      other_entries>>

(***************************************************************************)
(* Bounds                                                                  *)
(***************************************************************************)
MaxDays == 1
MaxIndex == 2
MaxLines == 3
MaxGraphFiles == 3

(***************************************************************************)
(* Program constants                                                       *)
(***************************************************************************)
cache_expiry == 24 * 60 * 60
chunk_size == 1000
DocExtensions == {".py", ".js", ".ts", ".jsx", ".tsx", ".md"}

\* The instants at which the clock is sampled: the multiples of the expiry and
\* one second before and after the first.
Instants == {d * cache_expiry : d \in 0..MaxDays} \cup {cache_expiry - 1, cache_expiry + 1}

(***************************************************************************)
(* The repository                                                          *)
(***************************************************************************)
PA == [dir |-> "", name |-> "a", ext |-> ".py"]
PB == [dir |-> "", name |-> "b", ext |-> ".md"]
PN == [dir |-> "", name |-> "n", ext |-> ".txt"]
Paths == {PA, PB}
RepoPaths == {PA, PB, PN}

\* The repository of the integration test: app.py, database.py, models.py, utils.py.
PApp == [dir |-> "", name |-> "app", ext |-> ".py"]
PDatabase == [dir |-> "", name |-> "database", ext |-> ".py"]
PModels == [dir |-> "", name |-> "models", ext |-> ".py"]
PUtils == [dir |-> "", name |-> "utils", ext |-> ".py"]
ProjectPaths == {PApp, PDatabase, PModels, PUtils}

\* The source texts of the integration test's files, by name.
ProjectSource ==
    (PApp :> "app_src") @@ (PDatabase :> "database_src")
        @@ (PModels :> "models_src") @@ (PUtils :> "utils_src")

\* A repository with a compiled file at the root, a package directory and a
\* virtual environment.
PZ == [dir |-> "", name |-> "z", ext |-> ".pyc"]
PPkgMod == [dir |-> "pkg", name |-> "mod", ext |-> ".py"]
PVenvLib == [dir |-> "venv", name |-> "lib", ext |-> ".py"]
LayoutPaths == {PA, PB, PZ, PPkgMod, PVenvLib}

FileStates(p) ==
    IF p = PA THEN {"absent", "unreadable", "x", "y"}
    ELSE IF p = PApp THEN {"absent", "app_src"}
    ELSE IF p = PDatabase THEN {"absent", "database_src", "database_v2"}
    ELSE IF p \in {PModels, PUtils} THEN {ProjectSource[p]}
    ELSE {"absent", "x"}

IsPresent(c) == c # "absent"
IsReadable(c) == c \notin {"absent", "unreadable"}

Sha256(content) == <<"sha256", content>>

\* A checksum map that hashes the path of a file instead of its bytes.
CalculateFileChecksumsOfNames(fs) ==
    LET hashed == {p \in DOMAIN fs : p.ext \in DocExtensions /\ IsReadable(fs[p])}
    IN  [p \in hashed |-> Sha256(p.name)]

\* cache.py 20-33: one checksum per file with an allow-listed extension that can
\* be opened; a file that cannot be opened is skipped.
CalculateFileChecksums(fs) ==
    LET hashed == {p \in DOMAIN fs : p.ext \in DocExtensions /\ IsReadable(fs[p])}
    IN  [p \in hashed |-> Sha256(fs[p])]

(***************************************************************************)
(* Path arguments and cache paths                                          *)
(***************************************************************************)
ArgRoot == [kind |-> "dir", at |-> "root"]
ArgOuter == [kind |-> "dir", at |-> "outer"]
ArgFile(p) == [kind |-> "file", path |-> p, at |-> "root"]
ArgOutside == [kind |-> "file", path |-> PApp, at |-> "outside"]
\* The repository root R written with a trailing separator, and the root of
\* another repository.
ArgRootSlash == [kind |-> "dir", at |-> "root/"]
ArgOther == [kind |-> "dir", at |-> "other"]

\* The text of a path argument, as tokens.
PathStr(path) ==
    IF path.kind = "dir" THEN <<path.at>>
    ELSE <<path.at, "/", path.path.name, path.path.ext>>

\* cache.py 15-18: the file named by the hash of the text of repo_path; texts
\* that differ have hashes that differ.
GetCachePath(repo_path) == Sha256(PathStr(repo_path))

\* The files of the repository that a path names: R's are the variable files,
\* the other repository holds one file that does not change.
OtherFiles == [p \in {PB} |-> "x"]
FilesOf(repo_path, fs) == IF repo_path = ArgOther THEN OtherFiles ELSE fs

\* The cache paths other than that of R: no entry has been written.
OtherPaths == {GetCachePath(ArgRootSlash), GetCachePath(ArgOther)}
NoOtherEntries == [path \in OtherPaths |-> [kind |-> "absent"]]

(***************************************************************************)
(* Python values                                                           *)
(***************************************************************************)
None == [kind |-> "none"]
Raise == [kind |-> "raise"]
NoDoc == [kind |-> "nodoc"]
NoReport == [kind |-> "none"]
Absent == [kind |-> "absent"]
Partial == [kind |-> "partial"]
NoPerm == [kind |-> "noperm"]
Fields == {"timestamp", "checksums", "documentation", "chunks", "metadata"}

Text(lines) == [kind |-> "str", lines |-> lines]

WordCount(line) == line

\* '\n'.join(list of lines)
JoinLines(list) == IF list = <<>> THEN <<0>> ELSE list

RECURSIVE Flatten(_)
Flatten(strs) == IF strs = <<>> THEN <<>> ELSE Head(strs) \o Flatten(Tail(strs))

\* '\n'.join(list of strs)
JoinStrs(strs) == IF strs = <<>> THEN <<0>> ELSE Flatten(strs)

\* cache.py 74-85: the chunking loop and the final flush.
RECURSIVE ChunkLoop(_, _, _, _)
ChunkLoop(lines, chunks, current_chunk, current_size) ==
    IF lines = <<>>
    THEN IF current_chunk # <<>>
         THEN Append(chunks, JoinLines(current_chunk))
         ELSE chunks
    ELSE LET line == Head(lines)
             line_size == WordCount(line)
         IN  IF current_size + line_size > chunk_size
             THEN ChunkLoop(Tail(lines), Append(chunks, JoinLines(current_chunk)),
                            <<line>>, line_size)
             ELSE ChunkLoop(Tail(lines), chunks, Append(current_chunk, line),
                            current_size + line_size)

\* cache.py 69-85
SplitIntoChunks(documentation) == ChunkLoop(documentation.lines, <<>>, <<>>, 0)

(***************************************************************************)
(* JSON                                                                    *)
(***************************************************************************)
Texts == {Text(<<1>>), Text(<<600, 600>>)}

MetaTest == {[kt |-> "str", k |-> "test", vt |-> "bool", v |-> "True"]}
MetaIntKey == {[kt |-> "int", k |-> "1", vt |-> "str", v |-> "x"]}
MetaSet == {[kt |-> "str", k |-> "s", vt |-> "set", v |-> "{1}"]}


\* json.dump raises TypeError on a value it cannot encode (a set).
JsonSerializable(meta) == \A it \in meta : it.vt # "set"

\* json.dump followed by json.load: object keys come back as strings.
JsonRoundTrip(meta) ==
    {[kt |-> "str", k |-> it.k, vt |-> it.vt, v |-> it.v] : it \in meta}

(***************************************************************************)
(* DocumentationCache                                                      *)
(***************************************************************************)
Hit(obj) ==
    [kind |-> "hit", documentation |-> obj.documentation,
     chunks |-> obj.chunks, metadata |-> obj.metadata]

\* cache.py 42-58, the body of the try block: Raise stands for any exception.
GetCachedDocBody(e, fs, t) ==
    IF e.kind # "json" THEN Raise
    ELSE IF "timestamp" \notin DOMAIN e.obj THEN Raise
    ELSE IF t - e.obj.timestamp > cache_expiry THEN None
    ELSE IF "checksums" \notin DOMAIN e.obj THEN Raise
    ELSE IF CalculateFileChecksums(fs) # e.obj.checksums THEN None
    ELSE IF ~({"documentation", "chunks", "metadata"} \subseteq DOMAIN e.obj) THEN Raise
    ELSE Hit(e.obj)

\* get_cached_doc without its try/except: an exception reaches the caller.
GetCachedDocUncaught(e, fs, t) ==
    IF e.kind = "absent" THEN None ELSE GetCachedDocBody(e, fs, t)

\* cache.py 35-60
GetCachedDoc(e, fs, t) ==
    IF e.kind = "absent" THEN None
    ELSE LET r == GetCachedDocBody(e, fs, t)
         IN  IF r = Raise THEN None ELSE r

\* get_cached_chunk without the lower bound: a negative index counts from the end.
GetCachedChunkNoLowerBound(e, fs, t, chunk_index) ==
    LET cache_data == GetCachedDoc(e, fs, t)
        n == IF cache_data = None THEN 0 ELSE Len(cache_data.chunks)
    IN  IF cache_data = None THEN None
        ELSE IF chunk_index < n /\ -n <= chunk_index
             THEN [kind |-> "chunk",
                   text |-> cache_data.chunks[IF chunk_index < 0 THEN n + chunk_index + 1
                                              ELSE chunk_index + 1]]
             ELSE None

\* cache.py 111-120
GetCachedChunk(e, fs, t, chunk_index) ==
    LET cache_data == GetCachedDoc(e, fs, t)
    IN  IF cache_data = None THEN None
        ELSE IF 0 <= chunk_index /\ chunk_index < Len(cache_data.chunks)
             THEN [kind |-> "chunk", text |-> cache_data.chunks[chunk_index + 1]]
             ELSE None

\* cache.py 87-100: what open(cache_path, 'w') and json.dump leave on disk.
WriteEntry(e, cache_data) ==
    IF e.kind = "noperm" THEN e
    ELSE IF ~JsonSerializable(cache_data.metadata) THEN Partial
    ELSE [kind |-> "json",
          obj |-> [cache_data EXCEPT !.metadata = JsonRoundTrip(cache_data.metadata)]]

\* cache.py 62-100: [raised, entry]; documentation.split raises for a dict.
CacheDocResult(e, fs, t, documentation, metadata) ==
    IF documentation.kind # "str"
    THEN [raised |-> TRUE, entry |-> e]
    ELSE [raised |-> FALSE,
          entry |-> WriteEntry(e, [timestamp |-> t,
                                   checksums |-> CalculateFileChecksums(fs),
                                   documentation |-> documentation,
                                   chunks |-> SplitIntoChunks(documentation),
                                   metadata |-> metadata])]

\* invalidate_cache that truncates the cache file instead of removing it.
InvalidateCacheTruncates(e) == Partial

\* invalidate_cache whose removal does nothing.
InvalidateCacheKeeps(e) == e

\* cache.py 102-109
InvalidateCacheResult(e) == IF e.kind # "absent" THEN Absent ELSE e

(***************************************************************************)
(* DocumentationGenerator and the handler's generation                     *)
(***************************************************************************)
exclude_dirs == {".git", "__pycache__", ".pytest_cache", ".venv", "venv"}
exclude_files == {".pyc", ".pyo", ".pyd", ".so", ".dll"}

\* The repository root holds the marker directory, the directories that hold a
\* file, and the files.  FileOrder is the files of the root in ascending name
\* order, then those of the directories, directory by directory; it is the order
\* of the tree, and os.walk is taken to yield the files in the same order (the
\* file system decides the real one, and the impact analysis is checked over
\* every order of the graph).
MarkerDir == [name |-> ".git", ext |-> "", is_file |-> FALSE]
FileOrder == <<PA, PApp, PB, PDatabase, PModels, PN, PUtils, PZ, PPkgMod, PVenvLib>>
DirOrder == <<".git", "pkg", "venv">>

\* generator.py 17: sorted(directory.iterdir(), key=(is_file, name)): the
\* directories in name order, then the files in name order.  directory is ""
\* for the root.
Entries(fs, directory) ==
    LET present(p) == p \in DOMAIN fs /\ p.dir = directory /\ IsPresent(fs[p])
        exists(d) ==
            /\ directory = ""
            /\ d = MarkerDir.name \/ \E p \in DOMAIN fs : p.dir = d /\ IsPresent(fs[p])
        dirs == SelectSeq(DirOrder, exists)
        listed == SelectSeq(FileOrder, present)
    IN  [i \in 1..Len(dirs) |-> [name |-> dirs[i], ext |-> "", is_file |-> FALSE]]
        \o [i \in 1..Len(listed) |->
               [name |-> listed[i].name, ext |-> listed[i].ext, is_file |-> TRUE]]

\* generator.py 20: the entries that are skipped.  An entry's full name is its
\* name followed by its ext.
Excluded(e) == (e.ext = "" /\ e.name \in exclude_dirs) \/ e.ext \in exclude_files

\* generator.py 23-25: the line of an entry; is_last compares the entry's index
\* in the unfiltered listing.
TreeLine(prefix, e, is_last) ==
    [prefix |-> prefix, connector |-> IF is_last THEN "last" ELSE "tee",
     name |-> e.name, ext |-> e.ext]

\* generator.py 16-29: one line per entry that is not excluded, followed by the
\* lines of the entry when it is a directory.  A prefix is a sequence of the
\* continuation indents "blank" and "bar".
RECURSIVE AddToTree(_, _, _, _)
AddToTree(fs, entries, prefix, i) ==
    IF i > Len(entries) THEN <<>>
    ELSE (IF Excluded(entries[i]) THEN <<>>
          ELSE <<TreeLine(prefix, entries[i], i = Len(entries))>>
               \o (IF entries[i].is_file THEN <<>>
                   ELSE AddToTree(fs, Entries(fs, entries[i].name),
                                  prefix \o <<IF i = Len(entries) THEN "blank" ELSE "bar">>,
                                  1)))
         \o AddToTree(fs, entries, prefix, i + 1)

\* generator.py 11-32
GenerateTreeStructure(fs) == AddToTree(fs, Entries(fs, ""), <<>>, 1)

\* generator.py 34-43
ExtractFileContents(p, c) ==
    IF IsReadable(c) THEN [kind |-> "file", path |-> p, content |-> c]
    ELSE [kind |-> "error", path |-> p, content |-> ""]

\* The syntax tree of a text that parses: its imports in order (an import is a
\* sequence of tokens), its function definitions with the names each calls, the
\* names it assigns and its class definitions.
Ast(imports, functions, variables, classes) ==
    [ok |-> TRUE, imports |-> imports, functions |-> functions,
     variables |-> variables, classes |-> classes]

Calls(names) == [calls |-> names]

\* What ast.parse finds in a text: the files of the integration test
\* (test_documentation_integration.py 27-69), a database.py rewritten to import
\* app and call process_request, the edits of the test and of its variants, and
\* texts that do not parse.
Parse(c) ==
    CASE c = "x" -> Ast(<<>>, <<>>, {}, {})
      [] c = "y" -> Ast(<< <<"b">> >>, <<>>, {}, {})
      [] c = "app_src" ->
            Ast(<< <<"database", ".", "Database">>, <<"models", ".", "User">>,
                   <<"utils", ".", "format_response">> >>,
                ("__init__" :> Calls({"Database"}))
                    @@ ("process_request" :> Calls({"User", "format_response"})),
                {"data"}, {"Application"})
      [] c = "database_src" ->
            Ast(<<>>, ("get_user_data" :> Calls({})), {}, {"Database"})
      [] c = "database_v2" ->
            Ast(<< <<"app">> >>, ("get_user_data" :> Calls({"process_request"})),
                {}, {"Database"})
      [] c = "models_src" -> Ast(<<>>, ("__init__" :> Calls({})), {}, {"User"})
      [] c = "utils_src" -> Ast(<<>>, ("format_response" :> Calls({})), {}, {})
      [] c = "edit_new_method" ->
            Ast(<<>>, ("new_method" :> Calls({"format_response"})), {"user_data"}, {})
      [] c = "edit_reimport" ->
            Ast(<< <<"database">> >>, ("new_method" :> Calls({"format_response"})),
                {"user_data"}, {})
      [] c = "edit_format_response" ->
            Ast(<<>>, ("format_response" :> Calls({})), {"data"}, {})
      [] OTHER -> [ok |-> FALSE, imports |-> <<>>, functions |-> <<>>,
                   variables |-> {}, classes |-> {}]

\* generator.py 45-117: the record of a file, or the error record when the file
\* cannot be read or parsed.
AnalyzeCodeRelationships(c) ==
    LET ast == Parse(c)
    IN  IF IsReadable(c) /\ ast.ok
        THEN [error |-> FALSE, imports |-> ast.imports, functions |-> ast.functions,
              variables |-> ast.variables, dependencies |-> "set()"]
        ELSE [error |-> TRUE, imports |-> <<>>, functions |-> <<>>, variables |-> {},
              dependencies |-> "[]"]

RECURSIVE WalkContents(_, _)
WalkContents(fs, ps) ==
    IF ps = <<>> THEN <<>>
    ELSE LET p == Head(ps)
         IN  (IF p \in DOMAIN fs /\ IsPresent(fs[p]) /\ p.ext \in DocExtensions
              THEN <<ExtractFileContents(p, fs[p])>> ELSE <<>>)
             \o WalkContents(fs, Tail(ps))

\* handler.py 127-152: the bundle built from the repository's current files.
GenerateBundle(fs) ==
    LET py == {p \in DOMAIN fs : IsPresent(fs[p]) /\ p.ext = ".py"}
    IN  [kind |-> "dict",
         tree |-> GenerateTreeStructure(fs),
         contents |-> WalkContents(fs, FileOrder),
         relationships |-> [p \in py |-> AnalyzeCodeRelationships(fs[p])]]

\* handler.py 155-158
BundleMetadata(bundle) ==
    {[kt |-> "str", k |-> "files_analyzed", vt |-> "int",
      v |-> ToString(Len(bundle.contents))],
     [kt |-> "str", k |-> "relationships_found", vt |-> "int",
      v |-> ToString(Cardinality(DOMAIN bundle.relationships))]}

\* handler.py 124-162: [value, entry]; an exception of cache_doc is caught and the
\* call returns None.
GenerateDocumentationResult(e, fs, t) ==
    LET documentation == GenerateBundle(fs)
        r == CacheDocResult(e, fs, t, documentation, BundleMetadata(documentation))
    IN  [value |-> IF r.raised THEN None ELSE documentation,
         entry |-> r.entry,
         wrote |-> ~r.raised]

(***************************************************************************)
(* Calls                                                                   *)
(***************************************************************************)
Call(op, idx, doc, meta, val) ==
    [meta |-> meta, op |-> op, idx |-> idx, doc |-> doc, val |-> val]

Idle == Call("env", 0, NoDoc, {}, None)

\* The calls of cache_doc: a text or the handler's bundle, with its metadata.
Writes(fs) ==
    {<<d, MetaTest>> : d \in Texts}
        \cup {<<Text(<<1>>), MetaIntKey>>, <<Text(<<1>>), MetaSet>>,
              <<GenerateBundle(fs), BundleMetadata(GenerateBundle(fs))>>}

cache_doc(documentation, metadata) ==
    LET r == CacheDocResult(entry, files, now, documentation, metadata)
    IN  /\ entry' = r.entry
        /\ snap' = IF r.raised THEN snap ELSE files
        /\ last' = Call("cache_doc", 0, documentation, metadata,
                        IF r.raised THEN Raise ELSE None)
        /\ UNCHANGED <<files, now, relationships, report, handler, writing, other_entries>>

get_cached_doc ==
    /\ last' = Call("get_cached_doc", 0, NoDoc, {}, GetCachedDoc(entry, files, now))
    /\ UNCHANGED <<files, now, entry, snap, relationships, report, handler, writing, other_entries>>

get_cached_chunk(chunk_index) ==
    /\ last' = Call("get_cached_chunk", chunk_index, NoDoc, {},
                    GetCachedChunk(entry, files, now, chunk_index))
    /\ UNCHANGED <<files, now, entry, snap, relationships, report, handler, writing, other_entries>>

invalidate_cache ==
    /\ entry' = InvalidateCacheResult(entry)
    /\ last' = Call("invalidate_cache", 0, NoDoc, {}, None)
    /\ UNCHANGED <<files, now, snap, relationships, report, handler, writing, other_entries>>

\* The cache file as bytes: the length of an entry grows with its documentation;
\* a file that open(cache_path, 'w') has just truncated is empty.
RECURSIVE SumLines(_)
SumLines(lines) == IF lines = <<>> THEN 0 ELSE Head(lines) + SumLines(Tail(lines))

Size(e) ==
    IF e.kind = "json" /\ "documentation" \in DOMAIN e.obj
    THEN 1 + SumLines(e.obj.documentation.lines)
    ELSE 0

\* cache.py 62-88 in a process of its own, up to open(cache_path, 'w'): the entry
\* is computed, then the file is truncated; json.dump writes into the buffer of
\* the file object.
cache_doc_open(process, documentation, metadata) ==
    LET r == CacheDocResult(entry, files, now, documentation, metadata)
        opened == ~r.raised /\ entry.kind # "noperm"
    IN  /\ process \notin DOMAIN writing
        /\ entry' = IF opened THEN Partial ELSE entry
        /\ writing' = IF opened THEN (process :> r.entry) @@ writing ELSE writing
        /\ last' = Call("cache_doc_open", 0, documentation, metadata,
                        IF r.raised THEN Raise ELSE None)
        /\ UNCHANGED <<files, now, snap, relationships, report, handler, other_entries>>

\* cache.py 88-89, the end of the with block: the buffer is written at the
\* offset of this file object, from the start of the file.  Bytes that another
\* process wrote beyond the end of this entry, after this process truncated
\* the file, stay behind it.
cache_doc_close(process) ==
    /\ process \in DOMAIN writing
    /\ entry' = IF Size(entry) > Size(writing[process]) THEN Partial
                ELSE writing[process]
    /\ writing' = [w \in DOMAIN writing \ {process} |-> writing[w]]
    /\ snap' = files
    /\ last' = Call("cache_doc_close", 0, NoDoc, {}, None)
    /\ UNCHANGED <<files, now, relationships, report, handler, other_entries>>

\* generator.py 11-32
generate_tree_structure ==
    /\ last' = Call("generate_tree_structure", 0, NoDoc, {},
                    [kind |-> "tree", lines |-> GenerateTreeStructure(files)])
    /\ UNCHANGED <<files, now, entry, snap, relationships, report, handler, writing, other_entries>>

\* handler.py 124-162
generate_documentation ==
    LET r == GenerateDocumentationResult(entry, files, now)
    IN  /\ entry' = r.entry
        /\ snap' = IF r.wrote THEN files ELSE snap
        /\ last' = Call("generate_documentation", 0, NoDoc, {}, r.value)
        /\ UNCHANGED <<files, now, relationships, report, handler, writing, other_entries>>

(***************************************************************************)
(* The environment                                                         *)
(***************************************************************************)
\* A file of the repository is created, edited, deleted or made unreadable.
ChangeFile(p, c) ==
    /\ c # files[p]
    /\ files' = [files EXCEPT ![p] = c]
    /\ last' = Idle
    /\ UNCHANGED <<now, entry, snap, relationships, report, handler, writing, other_entries>>

Tick(t) ==
    /\ t > now
    /\ now' = t
    /\ last' = Idle
    /\ UNCHANGED <<files, entry, snap, relationships, report, handler, writing, other_entries>>

\* The cache file is deleted, truncated or made inaccessible from outside.
DamageEntry(e) ==
    /\ entry.kind = "json"
    /\ entry' = e
    /\ last' = Idle
    /\ UNCHANGED <<files, now, snap, relationships, report, handler, writing, other_entries>>

\* The cache file loses one field.
DropField(f) ==
    /\ entry.kind = "json"
    /\ DOMAIN entry.obj = Fields
    /\ entry' = [kind |-> "json",
                 obj |-> [g \in Fields \ {f} |-> entry.obj[g]]]
    /\ last' = Idle
    /\ UNCHANGED <<files, now, snap, relationships, report, handler, writing, other_entries>>

Init ==
    /\ files = [p \in Paths |-> "x"]
    /\ now = 0
    /\ entry = Absent
    /\ snap = files
    /\ last = Idle
    /\ relationships = <<>>
    /\ report = NoReport
    /\ current_repo = None
    /\ loaded_chunks = <<>>
    /\ outer_repo = FALSE
    /\ writing = <<>>
    /\ other_entries = NoOtherEntries

Next ==
    \/ \E w \in Writes(files) : cache_doc(w[1], w[2])
    \/ generate_documentation
    \/ get_cached_doc
    \/ \E i \in -1..MaxIndex : get_cached_chunk(i)
    \/ invalidate_cache
    \/ \E p \in DOMAIN files : \E c \in FileStates(p) : ChangeFile(p, c)
    \/ \E t \in Instants : Tick(t)
    \/ \E e \in {Absent, Partial, NoPerm} : DamageEntry(e)
    \/ \E f \in Fields : DropField(f)

Spec == Init /\ [][Next]_vars

(***************************************************************************)
(* The cache over a repository that also holds a file outside the          *)
(* allow-list: the cache file is left alone from outside.                  *)
(***************************************************************************)
InitRepo ==
    /\ files = [p \in RepoPaths |-> "x"]
    /\ now = 0
    /\ entry = Absent
    /\ snap = files
    /\ last = Idle
    /\ relationships = <<>>
    /\ report = NoReport
    /\ current_repo = None
    /\ loaded_chunks = <<>>
    /\ outer_repo = FALSE
    /\ writing = <<>>
    /\ other_entries = NoOtherEntries

NextRepo ==
    \/ \E d \in Texts : cache_doc(d, MetaTest)
    \/ generate_documentation
    \/ get_cached_doc
    \/ invalidate_cache
    \/ \E p \in DOMAIN files : \E c \in FileStates(p) : ChangeFile(p, c)
    \/ \E t \in Instants : Tick(t)

SpecRepo == InitRepo /\ [][NextRepo]_vars

(***************************************************************************)
(* Chunking: cache_doc on every text of up to MaxLines lines.              *)
(***************************************************************************)
LineSizes == {0, 1, 500, 1000, 1001}

ChunkTexts == {Text(l) : l \in UNION {[1..n -> LineSizes] : n \in 1..MaxLines}}

NextChunk ==
    \/ \E d \in ChunkTexts : cache_doc(d, MetaTest)
    \/ get_cached_doc
    \/ \E i \in -1..MaxIndex : get_cached_chunk(i)

SpecChunk == Init /\ [][NextChunk]_vars

(***************************************************************************)
(* ContextProvider: edit-impact analysis.  A path or an import is a        *)
(* sequence of tokens, so that replace() and `in` act on its parts.        *)
(***************************************************************************)
PathApp == <<"app", ".py">>
PathDatabase == <<"database", ".py">>
PathUtils == <<"utils", ".py">>
PathPkgApp == <<"pkg", "/", "app", ".py">>
GraphPaths == {PathApp, PathDatabase, PathUtils, PathPkgApp}

\* str.replace(old, new) for a one-token old.
RECURSIVE Replace(_, _, _)
Replace(s, old, new) ==
    IF s = <<>> THEN <<>>
    ELSE (IF Head(s) = old THEN new ELSE <<Head(s)>>) \o Replace(Tail(s), old, new)

\* context.py 234: file_path.replace('/', '.').replace('.py', '')
ModuleName(file_path) == Replace(Replace(file_path, "/", <<".">>), ".py", <<>>)

\* sub in s, for strs
Contains(sub, s) ==
    \E i \in 1..(Len(s) - Len(sub) + 1) : SubSeq(s, i, i + Len(sub) - 1) = sub

\* The elements of a set in an order of iteration.
RECURSIVE Iterate(_)
Iterate(set) ==
    IF set = {} THEN <<>>
    ELSE LET x == CHOOSE y \in set : TRUE IN <<x>> \o Iterate(set \ {x})

Range(seq) == {seq[i] : i \in DOMAIN seq}

\* context.py 218-224: the modified functions called by a function of the file.
CallMatches(other_rels, modified_elements) ==
    {m \in modified_elements.functions \X DOMAIN other_rels.functions :
        m[1] \in other_rels.functions[m[2]].calls}

\* context.py 226-231
VariableMatches(other_rels, modified_elements) ==
    {v \in modified_elements.variables : v \in other_rels.variables}

\* context.py 233-239
ImportMatches(file_path, other_rels) ==
    {i \in DOMAIN other_rels.imports :
        Contains(ModuleName(file_path), other_rels.imports[i])}

Warn(kind, name, file) == [kind |-> kind, name |-> name, file |-> file]

\* The checks on one file with a variable check that warns and raises the risk
\* but does not add the file to affected_files.
CheckFileVariablesWarnOnly(file_path, other_file, other_rels, modified_elements, acc) ==
    LET calls == CallMatches(other_rels, modified_elements)
        variables == VariableMatches(other_rels, modified_elements)
        imports == ImportMatches(file_path, other_rels)
    IN  [affected_files |->
             acc.affected_files
                 \cup (IF calls # {} \/ imports # {} THEN {other_file} ELSE {}),
         warnings |-> acc.warnings,
         risk_level |->
             IF imports # {} THEN "high"
             ELSE IF calls # {} \/ variables # {} THEN "medium"
             ELSE acc.risk_level]

\* context.py 218-239: the three checks on one file, in the order of the code;
\* each match adds the file, appends a warning and assigns the risk level.
CheckFile(file_path, other_file, other_rels, modified_elements, acc) ==
    LET calls == Iterate(CallMatches(other_rels, modified_elements))
        variables == Iterate(VariableMatches(other_rels, modified_elements))
        imports == Iterate(ImportMatches(file_path, other_rels))
        afterCalls ==
            IF calls = <<>> THEN acc
            ELSE [affected_files |-> acc.affected_files \cup {other_file},
                  warnings |-> acc.warnings
                      \o [i \in DOMAIN calls |-> Warn("function", calls[i][1], other_file)],
                  risk_level |-> "medium"]
        afterVariables ==
            IF variables = <<>> THEN afterCalls
            ELSE [affected_files |-> afterCalls.affected_files \cup {other_file},
                  warnings |-> afterCalls.warnings
                      \o [i \in DOMAIN variables |-> Warn("variable", variables[i], other_file)],
                  risk_level |-> "medium"]
    IN  IF imports = <<>> THEN afterVariables
        ELSE [affected_files |-> afterVariables.affected_files \cup {other_file},
              warnings |-> afterVariables.warnings
                  \o [i \in DOMAIN imports |-> Warn("module", "", other_file)],
              risk_level |-> "high"]

\* The loop whose test for the edited file compares other_file with the module
\* name of the edited file, which no key of the graph equals: no record is
\* skipped.
RECURSIVE ImpactLoopComparesModule(_, _, _, _)
ImpactLoopComparesModule(items, file_path, modified_elements, acc) ==
    IF items = <<>> THEN acc
    ELSE IF Head(items)[1] = ModuleName(file_path)
    THEN ImpactLoopComparesModule(Tail(items), file_path, modified_elements, acc)
    ELSE ImpactLoopComparesModule(Tail(items), file_path, modified_elements,
                                  CheckFile(file_path, Head(items)[1], Head(items)[2],
                                            modified_elements, acc))

\* context.py 213-239: the loop over relationships.items(), in dict order.
RECURSIVE ImpactLoop(_, _, _, _)
ImpactLoop(items, file_path, modified_elements, acc) ==
    IF items = <<>> THEN acc
    ELSE LET other_file == Head(items)[1]
             other_rels == Head(items)[2]
         IN  IF other_file = file_path
             THEN ImpactLoop(Tail(items), file_path, modified_elements, acc)
             ELSE ImpactLoop(Tail(items), file_path, modified_elements,
                             CheckFile(file_path, other_file, other_rels,
                                       modified_elements, acc))

\* _analyze_impact without the `other_file == file_path: continue` of its loop:
\* the edited file's own record is checked like any other.
AnalyzeImpactNoSkip(file_path, rels, modified_elements) ==
    LET RECURSIVE Loop(_, _)
        Loop(items, acc) ==
            IF items = <<>> THEN acc
            ELSE Loop(Tail(items),
                      CheckFile(file_path, Head(items)[1], Head(items)[2],
                                modified_elements, acc))
    IN  Loop(rels, [affected_files |-> {}, warnings |-> <<>>, risk_level |-> "low"])

\* context.py 207-245
AnalyzeImpact(file_path, rels, modified_elements) ==
    ImpactLoop(rels, file_path, modified_elements,
               [affected_files |-> {}, warnings |-> <<>>, risk_level |-> "low"])

analyze_impact(file_path, modified_elements) ==
    /\ report' = [kind |-> "impact", file_path |-> file_path,
                  modified_elements |-> modified_elements,
                  impact |-> AnalyzeImpact(file_path, relationships, modified_elements)]
    /\ UNCHANGED <<files, now, entry, snap, last, relationships, handler, writing, other_entries>>

(***************************************************************************)
(* Impact analysis on every graph of up to MaxGraphFiles files.            *)
(***************************************************************************)
Record(imports, functions, variables) ==
    [imports |-> imports, functions |-> functions, variables |-> variables]

Calling(name) == [process_request |-> [calls |-> {name}]]

RecordPool ==
    {Record(<<>>, <<>>, {}),
     Record(<<>>, Calling("f"), {}),
     Record(<<>>, <<>>, {"v"}),
     Record(<< <<"os">>, <<"pkg", ".", "app">> >>, <<>>, {}),
     Record(<< <<"pkg", ".", "app">> >>, Calling("f"), {"v"})}

Modified(functions, variables) ==
    [functions |-> functions, variables |-> variables, imports |-> {}, classes |-> {}]

ModifiedPool ==
    {Modified({}, {}), Modified({"f"}, {}), Modified({}, {"v"}), Modified({"f"}, {"v"})}

EditedPaths == {PathApp, PathPkgApp}

\* The dicts of up to MaxGraphFiles files, in every insertion order.
Graphs ==
    {g \in UNION {[1..n -> GraphPaths \X RecordPool] : n \in 1..MaxGraphFiles} :
        \A i, j \in DOMAIN g : i # j => g[i][1] # g[j][1]}

InitImpact ==
    /\ files = [p \in Paths |-> "x"]
    /\ now = 0
    /\ entry = Absent
    /\ snap = files
    /\ last = Idle
    /\ relationships \in Graphs
    /\ report = NoReport
    /\ current_repo = None
    /\ loaded_chunks = <<>>
    /\ outer_repo = FALSE
    /\ writing = <<>>
    /\ other_entries = NoOtherEntries

NextImpact ==
    \E f \in EditedPaths, m \in ModifiedPool : analyze_impact(f, m)

SpecImpact == InitImpact /\ [][NextImpact]_vars

(***************************************************************************)
(* ContextProvider and DocumentationHandler over the repository.  A path   *)
(* argument is the repository root R, a file of R, or a file in a          *)
(* directory with no marker directory above it.                            *)
(***************************************************************************)

\* handler.py 105-112, context.py 89-96: the search starts at the parent of the
\* path, so for the root itself it finds only a repository that encloses it.
GetRepoPath(path, outer) ==
    IF path.kind = "file" /\ path.at = "root" THEN ArgRoot
    ELSE IF path \in {ArgRoot, ArgRootSlash} /\ outer THEN ArgOuter
    ELSE None

\* os.path.relpath(file_path, repo_path), as tokens
RelPath(p) ==
    IF p.dir = "" THEN <<p.name, p.ext>> ELSE <<p.dir, "/", p.name, p.ext>>

Error(message) == [kind |-> "error", error |-> message]

NoEdit == None
EditText(text) == [kind |-> "edit", text |-> text]

\* The cache file that the handler and the provider read for a path: of the
\* paths they are given, only the cache path of the root has ever been written.
EntryOf(repo_path, e) ==
    IF GetCachePath(repo_path) = GetCachePath(ArgRoot) THEN e ELSE Absent

\* context.py 103-112: the walk over the .py files of the repository.
RECURSIVE WalkRelationships(_, _)
WalkRelationships(fs, ps) ==
    IF ps = <<>> THEN <<>>
    ELSE LET p == Head(ps)
         IN  (IF p \in DOMAIN fs /\ IsPresent(fs[p]) /\ p.ext = ".py"
              THEN << <<RelPath(p), AnalyzeCodeRelationships(fs[p])>> >>
              ELSE <<>>)
             \o WalkRelationships(fs, Tail(ps))

\* _get_relationships without the lookup in relationship_cache: every call
\* walks the repository again.
GetRelationshipsRebuild(cache, fs) ==
    LET built == WalkRelationships(fs, FileOrder)
    IN  IF built # <<>> THEN [value |-> built, cache |-> built, none |-> FALSE]
        ELSE [value |-> None, cache |-> cache, none |-> TRUE]

\* context.py 98-117: [value, cache, none]; the memoized graph is returned as it
\* is, a graph that is built is memoized unless it is empty; none tells the
\* callers' test 'if not relationships'.
GetRelationships(cache, fs) ==
    IF cache # <<>> THEN [value |-> cache, cache |-> cache, none |-> FALSE]
    ELSE LET built == WalkRelationships(fs, FileOrder)
         IN  IF built # <<>> THEN [value |-> built, cache |-> built, none |-> FALSE]
             ELSE [value |-> None, cache |-> cache, none |-> TRUE]

\* context.py 119-147
GetDirectRelationships(file_path, rels) ==
    LET items == Range(rels)
        file_rels == (CHOOSE it \in items : it[1] = file_path)[2]
        imports_file(other_rels) ==
            \E i \in DOMAIN other_rels.imports :
                Contains(ModuleName(file_path), other_rels.imports[i])
        calls_file(other_rels) ==
            \E f \in DOMAIN other_rels.functions :
                \E call \in other_rels.functions[f].calls :
                    call \in DOMAIN file_rels.functions
        related_files ==
            {it[1] : it \in {o \in items :
                o[1] # file_path /\ (imports_file(o[2]) \/ calls_file(o[2]))}}
    IN  IF \A it \in items : it[1] # file_path
        THEN Error("No relationships found")
        ELSE [kind |-> "relations", imports |-> file_rels.imports,
              functions |-> file_rels.functions, variables |-> file_rels.variables,
              related_files |-> related_files]

\* context.py 149-169: a section opens at a line that starts with 'File: '; the
\* lines of a text are words, none opens a section, and the result is {}.
ExtractRelevantSections(documentation, related_files) == <<>>

\* context.py 14-49: [value, cache]; direct_relations['related_files'] raises
\* KeyError when the file has no record in the graph.
GetContextForFile(file_path, rels, e, fs, t, outer) ==
    LET repo_path == GetRepoPath(file_path, outer)
        g == GetRelationships(rels, fs)
        direct_relations == GetDirectRelationships(RelPath(file_path.path), g.value)
        cached_doc == GetCachedDoc(EntryOf(repo_path, e), fs, t)
    IN  IF repo_path = None
        THEN [value |-> Error("File not in a git repository"), cache |-> rels]
        ELSE IF g.none
        THEN [value |-> Error("Failed to analyze code relationships"), cache |-> g.cache]
        ELSE IF cached_doc = None
        THEN [value |-> [kind |-> "context", relationships |-> direct_relations,
                         documentation |-> None,
                         warning |-> "Documentation cache not available"],
              cache |-> g.cache]
        ELSE IF direct_relations.kind = "error"
        THEN [value |-> Raise, cache |-> g.cache]
        ELSE [value |-> [kind |-> "context", relationships |-> direct_relations,
                         documentation |->
                             ExtractRelevantSections(cached_doc.documentation,
                                                     direct_relations.related_files),
                         metadata |-> cached_doc.metadata],
              cache |-> g.cache]

\* context.py 171-205
EditAnalyzer(edit_tree) ==
    [functions |-> DOMAIN edit_tree.functions, variables |-> edit_tree.variables,
     imports |-> Range(edit_tree.imports), classes |-> edit_tree.classes]

\* context.py 74-87
ImpactResult(file_path, rels, modified_elements) ==
    LET impact == AnalyzeImpact(file_path, rels, modified_elements)
    IN  [kind |-> "impact", impact |-> impact, modified_elements |-> modified_elements,
         affected_files |-> impact.affected_files, risk_level |-> impact.risk_level,
         warnings |-> impact.warnings]

\* analyze_edit_impact that loads the relationships before it parses the edit.
AnalyzeEditImpactGraphFirst(file_path, edit, rels, fs, outer) ==
    LET g == GetRelationships(rels, fs)
        edit_tree == Parse(edit.text)
    IN  IF GetRepoPath(file_path, outer) = None
        THEN [value |-> Error("File not in a git repository"), cache |-> rels]
        ELSE IF g.none
        THEN [value |-> Error("Failed to analyze code relationships"), cache |-> g.cache]
        ELSE IF ~edit_tree.ok
        THEN [value |-> Error("Invalid Python syntax in edit"), cache |-> g.cache]
        ELSE [value |-> ImpactResult(RelPath(file_path.path), g.value,
                                     EditAnalyzer(edit_tree)),
              cache |-> g.cache]

\* context.py 51-87: [value, cache]
AnalyzeEditImpact(file_path, edit, rels, fs, outer) ==
    LET edit_tree == Parse(edit.text)
        g == GetRelationships(rels, fs)
    IN  IF GetRepoPath(file_path, outer) = None
        THEN [value |-> Error("File not in a git repository"), cache |-> rels]
        ELSE IF ~edit_tree.ok
        THEN [value |-> Error("Invalid Python syntax in edit"), cache |-> rels]
        ELSE IF g.none
        THEN [value |-> Error("Failed to analyze code relationships"), cache |-> g.cache]
        ELSE [value |-> ImpactResult(RelPath(file_path.path), g.value,
                                     EditAnalyzer(edit_tree)),
              cache |-> g.cache]

\* handler.py 114-122: [value, entry, wrote]
GetOrGenerateDoc(repo_path, e, fs, t) ==
    LET cached_doc == GetCachedDoc(e, fs, t)
    IN  IF cached_doc # None
        THEN [value |-> cached_doc, entry |-> e, wrote |-> FALSE]
        ELSE GenerateDocumentationResult(e, fs, t)

\* handler.py 16-55: the value returned and the state the call leaves.
HandleFileEditOut(value, e, rels, cur, loaded, wrote) ==
    [value |-> value, entry |-> e, relationships |-> rels,
     current_repo |-> cur, loaded_chunks |-> loaded, wrote |-> wrote]

\* handler.py 44-53
Composite(file_path, repo_path, documentation, context, impact, has_cached_doc) ==
    [kind |-> "composite", documentation |-> documentation, context |-> context,
     impact |-> impact,
     metadata |-> [repo_path |-> repo_path, file_path |-> file_path,
                   has_cached_doc |-> has_cached_doc]]

\* handler.py 39-53: the impact analysis, if an edit is given, and the result.
HandleWithContext(file_path, edit, repo_path, doc, context, fs, t, loaded, outer) ==
    LET impact == IF edit # NoEdit
                  THEN AnalyzeEditImpact(file_path, edit, context.cache, fs, outer)
                  ELSE [value |-> None, cache |-> context.cache]
    IN  HandleFileEditOut(
            Composite(file_path, repo_path, doc.value, context.value, impact.value,
                      GetCachedDoc(doc.entry, fs, t) # None),
            doc.entry, impact.cache, repo_path, loaded, doc.wrote)

\* handler.py 31-37: after _get_or_generate_doc, the context of the file.
HandleWithDoc(file_path, edit, repo_path, doc, fs, t, rels, loaded, outer) ==
    LET context == GetContextForFile(file_path, rels, doc.entry, fs, t, outer)
    IN  IF doc.value = None
        THEN HandleFileEditOut(Error("Failed to generate documentation"), doc.entry,
                               rels, repo_path, loaded, doc.wrote)
        ELSE IF context.value = Raise
        THEN HandleFileEditOut(Error("Handler error"), doc.entry, context.cache,
                               repo_path, loaded, doc.wrote)
        ELSE IF context.value.kind = "error"
        THEN HandleFileEditOut(context.value, doc.entry, context.cache, repo_path,
                               loaded, doc.wrote)
        ELSE HandleWithContext(file_path, edit, repo_path, doc, context, fs, t,
                               loaded, outer)

\* handler.py 16-55
HandleFileEdit(file_path, edit, e, fs, t, rels, cur, loaded, outer) ==
    LET repo_path == GetRepoPath(file_path, outer)
    IN  IF repo_path = None
        THEN HandleFileEditOut(Error("File not in a git repository"), e, rels, cur,
                               loaded, FALSE)
        ELSE HandleWithDoc(file_path, edit, repo_path,
                           GetOrGenerateDoc(repo_path, e, fs, t), fs, t, rels,
                           IF cur # repo_path THEN <<>> ELSE loaded, outer)

\* bool(chunk) for a str: '' is false.
Truthy(chunk) == chunk # None /\ chunk.text # <<0>>

\* handler.py 57-76: [value, loaded_chunks]
GetDocumentationChunk(repo_path, chunk_index, e, fs, t, loaded, outer) ==
    LET has == repo_path \in DOMAIN loaded
        list == IF has THEN loaded[repo_path] ELSE <<>>
        chunk == GetCachedChunk(EntryOf(repo_path, e), fs, t, chunk_index)
        padded == list \o [i \in 1..(chunk_index + 1 - Len(list)) |-> <<0>>]
    IN  IF GetRepoPath(repo_path, outer) = None
        THEN [value |-> None, loaded_chunks |-> loaded]
        ELSE IF has /\ 0 <= chunk_index /\ chunk_index < Len(list)
        THEN [value |-> [kind |-> "chunk", text |-> list[chunk_index + 1]],
              loaded_chunks |-> loaded]
        ELSE IF Truthy(chunk)
        THEN [value |-> chunk,
              loaded_chunks |->
                  (repo_path :> [padded EXCEPT ![chunk_index + 1] = chunk.text])]
        ELSE [value |-> None, loaded_chunks |-> loaded]

\* handler.py 78-103: [value, entry, loaded_chunks, wrote]
RefreshDocumentation(repo_path, e, fs, t, loaded, outer) ==
    LET e1 == InvalidateCacheResult(e)
        gen == GenerateDocumentationResult(e1, fs, t)
    IN  IF GetRepoPath(repo_path, outer) = None
        THEN [value |-> Error("Invalid repository path"), entry |-> e,
              loaded_chunks |-> loaded, wrote |-> FALSE]
        ELSE IF gen.value = None
        THEN [value |-> Error("Failed to generate documentation"),
              entry |-> gen.entry, loaded_chunks |-> <<>>, wrote |-> gen.wrote]
        ELSE [value |-> [kind |-> "refreshed", documentation |-> gen.value,
                         metadata |-> [repo_path |-> repo_path, cached |-> TRUE,
                                       chunks |-> 0]],
              entry |-> gen.entry, loaded_chunks |-> <<>>, wrote |-> gen.wrote]

\* A call of the context provider or of the handler: its arguments, what it
\* returned and, for a refresh, whether it came right after a handle_file_edit
\* that returned a composite result.
HandlerCall(op, arg, edit, idx, val, after) ==
    [meta |-> {}, op |-> op, idx |-> idx, doc |-> NoDoc, val |-> val,
     edit |-> edit, arg |-> arg, after |-> after]

get_context_for_file(file_path) ==
    LET r == GetContextForFile(file_path, relationships, entry, files, now, outer_repo)
    IN  /\ relationships' = r.cache
        /\ last' = HandlerCall("get_context_for_file", file_path, NoEdit, 0, r.value, FALSE)
        /\ UNCHANGED <<files, now, entry, snap, report, handler, writing, other_entries>>

analyze_edit_impact(file_path, edit) ==
    LET r == AnalyzeEditImpact(file_path, edit, relationships, files, outer_repo)
    IN  /\ relationships' = r.cache
        /\ last' = HandlerCall("analyze_edit_impact", file_path, edit, 0, r.value, FALSE)
        /\ UNCHANGED <<files, now, entry, snap, report, handler, writing, other_entries>>

handle_file_edit(file_path, edit) ==
    LET r == HandleFileEdit(file_path, edit, entry, files, now, relationships,
                            current_repo, loaded_chunks, outer_repo)
    IN  /\ entry' = r.entry
        /\ snap' = IF r.wrote THEN files ELSE snap
        /\ relationships' = r.relationships
        /\ current_repo' = r.current_repo
        /\ loaded_chunks' = r.loaded_chunks
        /\ last' = HandlerCall("handle_file_edit", file_path, edit, 0, r.value, FALSE)
        /\ UNCHANGED <<files, now, report, outer_repo, writing, other_entries>>

get_documentation_chunk(repo_path, chunk_index) ==
    LET r == GetDocumentationChunk(repo_path, chunk_index, entry, files, now,
                                   loaded_chunks, outer_repo)
    IN  /\ loaded_chunks' = r.loaded_chunks
        /\ last' = HandlerCall("get_documentation_chunk", repo_path, NoEdit,
                               chunk_index, r.value, FALSE)
        /\ UNCHANGED <<files, now, entry, snap, relationships, report,
                       current_repo, outer_repo, writing, other_entries>>

refresh_documentation(repo_path) ==
    LET r == RefreshDocumentation(repo_path, entry, files, now, loaded_chunks,
                                  outer_repo)
    IN  /\ entry' = r.entry
        /\ snap' = IF r.wrote THEN files ELSE snap
        /\ loaded_chunks' = r.loaded_chunks
        /\ last' = HandlerCall("refresh_documentation", repo_path, NoEdit, 0, r.value,
                               last.op = "handle_file_edit" /\ last.val.kind = "composite")
        /\ UNCHANGED <<files, now, relationships, report, current_repo, outer_repo, writing, other_entries>>

(***************************************************************************)
(* The context provider over the repository of the integration test.       *)
(***************************************************************************)
Edits == {EditText(c) : c \in {"edit_new_method", "edit_reimport",
                               "edit_format_response", "edit_bad"}}

ContextArgs == {ArgFile(PApp), ArgFile(PDatabase), ArgFile(PUtils), ArgOutside}

InitProject ==
    /\ files = ProjectSource
    /\ now = 0
    /\ entry = Absent
    /\ snap = files
    /\ last = Idle
    /\ relationships = <<>>
    /\ report = NoReport
    /\ current_repo = None
    /\ loaded_chunks = <<>>
    /\ outer_repo \in BOOLEAN
    /\ writing = <<>>
    /\ other_entries = NoOtherEntries

NextContext ==
    \/ \E f \in ContextArgs : get_context_for_file(f)
    \/ \E f \in ContextArgs, e \in Edits : analyze_edit_impact(f, e)
    \/ cache_doc(Text(<<1>>), MetaTest)
    \/ invalidate_cache
    \/ \E p \in DOMAIN files : \E c \in FileStates(p) : ChangeFile(p, c)

SpecContext == InitProject /\ [][NextContext]_vars

(***************************************************************************)
(* The cache of two repositories, R and another one, next to the handler   *)
(* working on R under two spellings of its root.                           *)
(***************************************************************************)
\* The cache file at the cache path of repo_path.
EntryAt(repo_path, e, others) ==
    IF GetCachePath(repo_path) = GetCachePath(ArgRoot) THEN e
    ELSE others[GetCachePath(repo_path)]

\* The cache files after the one at the cache path of repo_path became value.
PutEntry(repo_path, value, e, others) ==
    IF GetCachePath(repo_path) = GetCachePath(ArgRoot)
    THEN [entry |-> value, others |-> others]
    ELSE [entry |-> e,
          others |-> [others EXCEPT ![GetCachePath(repo_path)] = value]]

\* cache.py 62-100
cache_doc_at(repo_path, documentation, metadata) ==
    LET r == CacheDocResult(EntryAt(repo_path, entry, other_entries),
                            FilesOf(repo_path, files), now, documentation, metadata)
        put == PutEntry(repo_path, r.entry, entry, other_entries)
    IN  /\ entry' = put.entry
        /\ other_entries' = put.others
        /\ snap' = IF r.raised \/ put.entry = entry THEN snap ELSE files
        /\ last' = HandlerCall("cache_doc", repo_path, NoEdit, 0,
                               IF r.raised THEN Raise ELSE None, FALSE)
        /\ UNCHANGED <<files, now, relationships, report, handler, writing>>

\* cache.py 102-109
invalidate_cache_at(repo_path) ==
    LET put == PutEntry(repo_path,
                        InvalidateCacheResult(EntryAt(repo_path, entry, other_entries)),
                        entry, other_entries)
    IN  /\ entry' = put.entry
        /\ other_entries' = put.others
        /\ last' = HandlerCall("invalidate_cache", repo_path, NoEdit, 0, None, FALSE)
        /\ UNCHANGED <<files, now, snap, relationships, report, handler, writing>>

\* cache.py 35-60
get_cached_doc_at(repo_path) ==
    /\ last' = HandlerCall("get_cached_doc", repo_path, NoEdit, 0,
                           GetCachedDoc(EntryAt(repo_path, entry, other_entries),
                                        FilesOf(repo_path, files), now),
                           FALSE)
    /\ UNCHANGED <<files, now, entry, snap, relationships, report, handler, writing,
                   other_entries>>

Roots == {ArgRoot, ArgOther}

NextIsolation ==
    \/ \E r \in Roots, d \in Texts : cache_doc_at(r, d, MetaTest)
    \/ \E r \in Roots : invalidate_cache_at(r)
    \/ \E r \in Roots : get_cached_doc_at(r)
    \/ handle_file_edit(ArgFile(PApp), NoEdit)
    \/ \E r \in {ArgRoot, ArgRootSlash} : get_documentation_chunk(r, 0)
    \/ \E t \in {0, cache_expiry + 1} : Tick(t)

SpecIsolation == InitProject /\ [][NextIsolation]_vars

(***************************************************************************)
(* Two processes write the cache file of the same repository while a third *)
(* reads it.                                                               *)
(***************************************************************************)
Processes == {1, 2}

NextConcurrent ==
    \/ \E w \in Processes, d \in Texts : cache_doc_open(w, d, MetaTest)
    \/ \E w \in Processes : cache_doc_close(w)
    \/ get_cached_doc
    \/ \E t \in Instants : Tick(t)

SpecConcurrent == Init /\ [][NextConcurrent]_vars

(***************************************************************************)
(* A repository in every layout of LayoutPaths: the tree is rendered, the  *)
(* graph is built by a context lookup and the cache entry is written.      *)
(***************************************************************************)
LayoutStates(p) ==
    IF p = PA THEN {"absent", "unreadable", "x", "bad"}
    ELSE IF p = PPkgMod THEN {"absent", "x", "bad"}
    ELSE {"absent", "x"}

InitLayout ==
    /\ files \in {fs \in [LayoutPaths -> {"absent", "unreadable", "x", "bad"}] :
                      \A p \in LayoutPaths : fs[p] \in LayoutStates(p)}
    /\ now = 0
    /\ entry = Absent
    /\ snap = files
    /\ last = Idle
    /\ relationships = <<>>
    /\ report = NoReport
    /\ current_repo = None
    /\ loaded_chunks = <<>>
    /\ outer_repo = FALSE
    /\ writing = <<>>
    /\ other_entries = NoOtherEntries

NextLayout ==
    \/ generate_tree_structure
    \/ \E p \in {PA, PPkgMod} : get_context_for_file(ArgFile(p))
    \/ cache_doc(Text(<<1>>), MetaTest)
    \/ invalidate_cache

SpecLayout == InitLayout /\ [][NextLayout]_vars

(***************************************************************************)
(* The handler over the same repository, with the cache written and        *)
(* invalidated directly, files changing and the clock advancing.           *)
(***************************************************************************)
HandlerInstants == {0, cache_expiry + 1}

NextHandler ==
    \/ \E e \in {NoEdit, EditText("edit_format_response")} :
          handle_file_edit(ArgFile(PApp), e)
    \/ handle_file_edit(ArgOutside, NoEdit)
    \/ \E r \in {ArgRoot, ArgOutside} :
          \E i \in 0..MaxIndex : get_documentation_chunk(r, i)
    \/ get_documentation_chunk(ArgFile(PApp), 0)
    \/ \E r \in {ArgRoot, ArgOutside} : refresh_documentation(r)
    \/ \E d \in Texts : cache_doc(d, MetaTest)
    \/ invalidate_cache
    \/ \E c \in {"absent", "database_src"} : ChangeFile(PDatabase, c)
    \/ \E t \in HandlerInstants : Tick(t)

SpecHandler == InitProject /\ [][NextHandler]_vars

(***************************************************************************)
(* Claims about the cache                                                  *)
(***************************************************************************)
\* The cache file is an entry as cache_doc wrote it, with every field.
Intact == entry.kind = "json" /\ DOMAIN entry.obj = Fields

Returned(op) == last.op = op

\* C1: an entry written at time T with unchanged files is a hit at every time in
\* [T, T + expiry) and a miss at every time from T + expiry on, T + expiry included.
C1_ExpiryBoundary ==
    (Returned("get_cached_doc") /\ Intact /\ files = snap)
        => (last.val.kind = "hit" <=> now < entry.obj.timestamp + cache_expiry)

\* Some file with an allow-listed extension differs between the two file states.
EligibleChanged(before, after) ==
    \E p \in DOMAIN after : p.ext \in DocExtensions /\ before[p] # after[p]

\* What the cache can read of a file: its content, or nothing.
Readable(c) == IF IsReadable(c) THEN c ELSE "absent"

ReadableChanged(before, after) ==
    \E p \in DOMAIN after :
        p.ext \in DocExtensions /\ Readable(before[p]) # Readable(after[p])

Fresh == now - entry.obj.timestamp < cache_expiry

C3_NeverStale ==
    (Returned("get_cached_doc") /\ last.val.kind = "hit")
        => GenerateBundle(snap) = GenerateBundle(files)

\* C5: joining the chunks stored by cache_doc with newlines gives back the
\* documentation text, for every text, a first line over the budget included.
C5_LosslessChunks ==
    Intact => JoinStrs(entry.obj.chunks) = entry.obj.documentation.lines

\* Metadata that JSON stores as it is: string keys, encodable values.
JsonNative(meta) == JsonSerializable(meta) /\ \A it \in meta : it.kt = "str"

\* C4: cache_doc(repo, D, M), for any documentation D and any JSON metadata M,
\* immediately followed by get_cached_doc(repo) returns a hit whose documentation
\* is D and whose metadata is M.
C4_RoundTrip ==
    [][(/\ last.op = "cache_doc" /\ JsonNative(last.meta) /\ entry.kind # "noperm"
        /\ last'.op = "get_cached_doc")
        => /\ last'.val.kind = "hit"
           /\ last'.val.documentation = last.doc
           /\ last'.val.metadata = last.meta]_vars

Damaged == ~Intact

\* C6: get_cached_doc never raises, and a cache file that is missing, unreadable,
\* not decodable or lacks a field is a miss.
C6_ReadNeverRaises ==
    Returned("get_cached_doc")
        => /\ last.val # Raise
           /\ Damaged => last.val = None

\* A read of an entry that lacks only its metadata, the files unchanged and the
\* entry not expired, was a miss.
C6_Witness ==
    /\ Returned("get_cached_doc")
    /\ entry.kind = "json" /\ DOMAIN entry.obj = Fields \ {"metadata"}
    /\ Fresh /\ entry.obj.checksums = CalculateFileChecksums(files)
    /\ last.val = None

\* C7: invalidate_cache without an entry completes and changes nothing, and a
\* second invalidate_cache in a row leaves the state of the first.
C7_InvalidateIdempotent ==
    /\ [][/\ (entry = Absent /\ last'.op = "invalidate_cache")
              => (entry' = entry /\ files' = files /\ last'.val = None)
          /\ (last.op = "invalidate_cache" /\ last'.op = "invalidate_cache")
              => (entry' = entry /\ files' = files)]_vars
    /\ [](InvalidateCacheResult(InvalidateCacheResult(entry))
            = InvalidateCacheResult(entry))

\* invalidate_cache has run and there is no entry.
C7_Witness == Returned("invalidate_cache") /\ entry = Absent

IsRead(op) == op \in {"get_cached_doc", "get_cached_chunk"}

Others(file_path) == {it \in Range(relationships) : it[1] # file_path}

ImportEvidence(file_path) ==
    \E it \in Others(file_path) : ImportMatches(file_path, it[2]) # {}

CallEvidence(file_path, modified_elements) ==
    \E it \in Others(file_path) : CallMatches(it[2], modified_elements) # {}

VariableEvidence(file_path, modified_elements) ==
    \E it \in Others(file_path) : VariableMatches(it[2], modified_elements) # {}

\* C10: the reported risk is the maximum severity over all the evidence in the
\* graph: 'high' with import evidence in any other file, in whatever order the
\* files are visited, 'medium' with only call or variable evidence, else 'low'.
C10_RiskIsMaximum ==
    report.kind = "impact"
        => report.impact.risk_level =
              IF ImportEvidence(report.file_path) THEN "high"
              ELSE IF \/ CallEvidence(report.file_path, report.modified_elements)
                      \/ VariableEvidence(report.file_path, report.modified_elements)
                   THEN "medium"
                   ELSE "low"

\* The same (path, record) pairs in every order of iteration.
Orders(rels) ==
    {[i \in DOMAIN rels |-> rels[p[i]]] : p \in Permutations(DOMAIN rels)}

\* C11: for a fixed edited file, modified elements and set of relationship
\* records, affected_files and risk_level are the same in every order in which
\* the files of the graph are iterated.
C11_OrderInsensitive ==
    report.kind = "impact"
        => \A g \in Orders(relationships) :
              LET r == AnalyzeImpact(report.file_path, g, report.modified_elements)
              IN  /\ r.affected_files = report.impact.affected_files
                  /\ r.risk_level = report.impact.risk_level

NoEvidence(file_path, modified_elements) ==
    /\ ~ImportEvidence(file_path)
    /\ ~CallEvidence(file_path, modified_elements)
    /\ ~VariableEvidence(file_path, modified_elements)

\* C12: with no modified function called in another file, no modified variable
\* among another file's variables and the edited file's module name in no other
\* file's imports, the analysis reports risk 'low', no affected file and no
\* warning.
C12_ZeroEvidence ==
    (report.kind = "impact" /\ NoEvidence(report.file_path, report.modified_elements))
        => report.impact =
              [affected_files |-> {}, warnings |-> <<>>, risk_level |-> "low"]

\* An analysis without evidence in the other files of a graph in which the
\* edited file itself calls the modified function.
C12_Witness ==
    /\ report.kind = "impact"
    /\ NoEvidence(report.file_path, report.modified_elements)
    /\ Others(report.file_path) # {}
    /\ \E it \in Range(relationships) :
          /\ it[1] = report.file_path
          /\ CallMatches(it[2], report.modified_elements) # {}
    /\ report.impact.risk_level = "low"

Matched(file_path, modified_elements, other_rels) ==
    \/ CallMatches(other_rels, modified_elements) # {}
    \/ VariableMatches(other_rels, modified_elements) # {}
    \/ ImportMatches(file_path, other_rels) # {}

\* C27: a file other than the edited one is in affected_files if and only if a
\* modified function is among the calls of one of its functions, or a modified
\* variable is among its variables, or the edited file's module name is a
\* substring of one of its imports; affected_files is a set, so a file matched
\* by several checks is in it once.
C27_AffectedIsUnion ==
    report.kind = "impact"
        => report.impact.affected_files =
              {it[1] : it \in {o \in Others(report.file_path) :
                  Matched(report.file_path, report.modified_elements, o[2])}}

\* An analysis in which one file is matched by the variable check alone, and
\* another file of the graph is matched by no check.
C27_Witness ==
    /\ report.kind = "impact"
    /\ \E o \in Others(report.file_path) :
          /\ VariableMatches(o[2], report.modified_elements) # {}
          /\ CallMatches(o[2], report.modified_elements) = {}
          /\ ImportMatches(report.file_path, o[2]) = {}
          /\ o[1] \in report.impact.affected_files
    /\ \E o \in Others(report.file_path) :
          /\ ~Matched(report.file_path, report.modified_elements, o[2])
          /\ o[1] \notin report.impact.affected_files


\* C33: the edited file is not in affected_files and no warning names it,
\* whatever its own record in the graph matches.
C33_EditedFileNotAffected ==
    report.kind = "impact"
        => /\ report.file_path \notin report.impact.affected_files
           /\ \A i \in DOMAIN report.impact.warnings :
                 report.impact.warnings[i].file # report.file_path

\* An analysis of a graph in which the edited file's own record matches all
\* three checks, and another file is affected.
C33_Witness ==
    /\ report.kind = "impact"
    /\ \E it \in Range(relationships) :
          /\ it[1] = report.file_path
          /\ CallMatches(it[2], report.modified_elements) # {}
          /\ VariableMatches(it[2], report.modified_elements) # {}
          /\ ImportMatches(report.file_path, it[2]) # {}
    /\ report.impact.affected_files # {}
    /\ report.file_path \notin report.impact.affected_files

(***************************************************************************)
(* Claims about the context provider and the handler                       *)
(***************************************************************************)
\* The repository is the one of the scenario and the graph in use was built
\* from its files as they are.
ScenarioGraph ==
    /\ files = ProjectSource
    /\ relationships = WalkRelationships(files, FileOrder)

AnalyzedEdit(file, text) ==
    /\ Returned("analyze_edit_impact")
    /\ last.arg = ArgFile(file) /\ last.edit = EditText(text)

\* C13: with app importing database, models and utils, database defining
\* get_user_data and utils defining format_response, an edit of app that adds
\* new_method calling get_user_data and format_response reports database and
\* utils as affected, warns about get_user_data and has risk 'medium'; the same
\* edit with a re-import of database has risk 'high'.
C13_EndToEndScenario ==
    /\ (AnalyzedEdit(PApp, "edit_new_method") /\ ScenarioGraph)
          => /\ last.val.kind = "impact"
             /\ {RelPath(PDatabase), RelPath(PUtils)} \subseteq last.val.affected_files
             /\ \E i \in DOMAIN last.val.warnings :
                   last.val.warnings[i].name = "get_user_data"
             /\ last.val.risk_level = "medium"
    /\ (AnalyzedEdit(PApp, "edit_reimport") /\ ScenarioGraph)
          => /\ last.val.kind = "impact"
             /\ last.val.risk_level = "high"

HasParseablePython(fs) ==
    \E p \in DOMAIN fs : p.ext = ".py" /\ IsReadable(fs[p]) /\ Parse(fs[p]).ok

\* C15: handle_file_edit without an edit, for a file of a repository that holds a
\* parseable Python file, returns a composite result without 'error', whose
\* 'documentation' has the tree and the contents of the eligible files, and
\* which has a 'context'.
C15_CompositeResult ==
    (/\ Returned("handle_file_edit") /\ last.edit = NoEdit
     /\ GetRepoPath(last.arg, outer_repo) # None /\ HasParseablePython(files))
        => /\ last.val.kind = "composite"
           /\ {"tree", "contents"} \subseteq DOMAIN last.val.documentation
           /\ last.val.documentation.tree = GenerateBundle(files).tree
           /\ last.val.documentation.contents = GenerateBundle(files).contents
           /\ last.val.context.kind = "context"

\* C16: two handle_file_edit calls in a row for the same file, with no file
\* change and no expiry between them, both return a 'documentation', and the one
\* of the second call equals the one of the first.
C16_CachedEqualsOriginal ==
    [][(/\ last.op = "handle_file_edit" /\ last'.op = "handle_file_edit"
        /\ last'.arg = last.arg /\ GetRepoPath(last.arg, outer_repo) # None)
        => /\ last.val.kind = "composite"
           /\ last'.val.kind = "composite"
           /\ last'.val.documentation = last.val.documentation]_vars

\* C17: after refresh_documentation(R) on the repository root R the cache entry
\* is a hit that holds the bundle of the files as they are, and the memoized
\* graph is the graph of the files as they are.
C17_RefreshRebuilds ==
    (Returned("refresh_documentation") /\ last.arg = ArgRoot)
        => /\ GetCachedDoc(entry, files, now).kind = "hit"
           /\ GetCachedDoc(entry, files, now).documentation = GenerateBundle(files)
           /\ relationships = WalkRelationships(files, FileOrder)

\* C18: after a handle_file_edit that succeeded for a file of R and a
\* refresh_documentation(R) right after it, get_documentation_chunk(R, 0) returns
\* a chunk.
C18_ChunkAfterRefresh ==
    [][(/\ last.op = "refresh_documentation" /\ last.arg = ArgRoot /\ last.after
        /\ last'.op = "get_documentation_chunk" /\ last'.arg = ArgRoot
        /\ last'.idx = 0)
        => last'.val.kind = "chunk"]_vars

\* C19: get_documentation_chunk(repo, i) returns what get_cached_chunk(repo, i)
\* returns at that moment when repo is the repository root, and None for any
\* other path.
C19_PureDelegation ==
    Returned("get_documentation_chunk")
        => IF last.arg = ArgRoot
           THEN last.val = GetCachedChunk(entry, files, now, last.idx)
           ELSE last.val = None

\* The files of the graph in use whose module an import of file_path names.
Dependencies(file_path) ==
    {it[1] : it \in {o \in Range(relationships) :
        /\ o[1] # file_path
        /\ \E f \in Range(relationships) :
              /\ f[1] = file_path
              /\ \E i \in DOMAIN f[2].imports :
                    Contains(ModuleName(o[1]), f[2].imports[i])}}

\* C20: get_context_for_file(F), for a file F of the graph, lists in
\* relationships.related_files every file of the graph whose module an import
\* of F names.
C20_RelatedIncludesDependencies ==
    (/\ Returned("get_context_for_file") /\ last.val # Raise
     /\ last.val.kind = "context" /\ last.val.relationships.kind = "relations")
        => Dependencies(RelPath(last.arg.path))
              \subseteq last.val.relationships.related_files

\* C24: handle_file_edit for a file below a repository root never returns a
\* top-level error result: not on a cache miss, not when the cache cannot be
\* written or chunked, not when the file has no record in the graph.
C24_ErrorOnlyForInvalidInput ==
    (Returned("handle_file_edit") /\ GetRepoPath(last.arg, outer_repo) # None)
        => last.val.kind # "error"

\* The persisted entry is not the one a generation at this moment writes.
PersistFailed ==
    ~(/\ Intact
      /\ entry.obj.timestamp = now
      /\ entry.obj.documentation = GenerateBundle(files))

\* C25: when persisting the entry fails during generation, the generating call
\* still returns the documentation it generated and the next get_cached_doc is a
\* miss.
C25_FailedWriteKeepsResult ==
    (Returned("generate_documentation") /\ PersistFailed)
        => /\ last.val = GenerateBundle(files)
           /\ GetCachedDoc(entry, files, now) = None

\* What a lookup of the graph shows of a file, in a result of the provider.
ShownRelations(val) ==
    IF val.kind = "composite" THEN val.context.relationships
    ELSE val.relationships

ShowsRelations(call) ==
    /\ call.op \in {"handle_file_edit", "get_context_for_file"}
    /\ call.val.kind \in {"composite", "context"}

\* C28: once a graph is memoized, every step other than a refresh leaves it as it
\* is, whatever the time, the cache entry and the files, and every lookup shows
\* the relations of the memoized graph.
C28_GraphMemoized ==
    [][(relationships # <<>> /\ last'.op # "refresh_documentation")
        => /\ relationships' = relationships
           /\ ShowsRelations(last')
                 => ShownRelations(last'.val)
                       = GetDirectRelationships(RelPath(last'.arg.path), relationships)]_vars

\* A lookup after the files changed and the clock passed the expiry showed the
\* relations of the graph memoized before.
C28_Witness ==
    /\ ShowsRelations(last)
    /\ relationships # <<>>
    /\ relationships # WalkRelationships(files, FileOrder)
    /\ now > cache_expiry
    /\ ShownRelations(last.val)
          = GetDirectRelationships(RelPath(last.arg.path), relationships)

(***************************************************************************)
(* Claims about the layout of the repository                               *)
(***************************************************************************)
Keys(rels) == {it[1] : it \in Range(rels)}
RecordOf(rels, key) == (CHOOSE it \in Range(rels) : it[1] = key)[2]

Parses(c) == IsReadable(c) /\ Parse(c).ok

\* The .py files outside the excluded directories.
EligiblePython(fs) ==
    {p \in DOMAIN fs : IsPresent(fs[p]) /\ p.ext = ".py" /\ p.dir \notin exclude_dirs}

\* C21: in a graph that was built, a file that fails to parse is not a key, and
\* every eligible file that parses is a key with its record.
C21_ParseFailureContained ==
    relationships # <<>>
        => \A p \in EligiblePython(files) :
              IF Parses(files[p])
              THEN /\ RelPath(p) \in Keys(relationships)
                   /\ RecordOf(relationships, RelPath(p))
                         = AnalyzeCodeRelationships(files[p])
              ELSE RelPath(p) \notin Keys(relationships)

\* C22: when no .py file of the repository parses (there is none, or each
\* fails), no graph is built and the lookup returns the analysis-unavailable
\* result.
C22_NoGraphWhenNothingParses ==
    (Returned("get_context_for_file") /\ ~HasParseablePython(files))
        => /\ relationships = <<>>
           /\ last.val = Error("Failed to analyze code relationships")

\* The directory a line of the tree is listed in: the name of the nearest line
\* above it with a prefix one shorter; "" at the root.
ParentDir(lines, i) ==
    IF lines[i].prefix = <<>> THEN ""
    ELSE LET above == {j \in 1..(i - 1) :
                          Len(lines[j].prefix) = Len(lines[i].prefix) - 1}
         IN  lines[CHOOSE j \in above : \A k \in above : k <= j].name

\* C26: no line of the rendered tree is an excluded directory or an entry of
\* one, and no key of the graph is a file below an excluded directory.
C26_ExcludedDirectories ==
    /\ Returned("generate_tree_structure")
          => \A i \in DOMAIN last.val.lines :
                /\ ~(last.val.lines[i].ext = "" /\ last.val.lines[i].name \in exclude_dirs)
                /\ ParentDir(last.val.lines, i) \notin exclude_dirs
    /\ \A key \in Keys(relationships) : Len(key) = 4 => key[1] \notin exclude_dirs

\* C29: the keys of the checksum map that cache_doc stored are the files with an
\* allow-listed extension that are not under an excluded directory.
C29_ChecksumKeys ==
    (Returned("cache_doc") /\ Intact)
        => DOMAIN entry.obj.checksums
              = {p \in DOMAIN files :
                    IsPresent(files[p]) /\ p.ext \in DocExtensions
                        /\ p.dir \notin exclude_dirs}

\* Line i is the last line of its directory: no later line has the same depth
\* before the listing returns to a shallower one.
LastSibling(lines, i) ==
    ~\E j \in (i + 1)..Len(lines) :
        /\ Len(lines[j].prefix) = Len(lines[i].prefix)
        /\ \A k \in (i + 1)..(j - 1) : Len(lines[k].prefix) > Len(lines[i].prefix)

\* C30: in every directory of the rendered tree the last line is drawn with the
\* closing connector and every other line with the branching one.
C30_TreeConnectors ==
    Returned("generate_tree_structure")
        => \A i \in DOMAIN last.val.lines :
              (last.val.lines[i].connector = "last") <=> LastSibling(last.val.lines, i)

\* C23: while cache_doc calls and reads of one repository interleave, the cache
\* file is at every point absent or one complete entry.
C23_AtomicWrite == entry = Absent \/ Intact

\* C31: in the chunks that cache_doc stored, a chunk of more than one line has at
\* most chunk_size words, and there are no more empty chunks than the
\* documentation has empty lines: each empty chunk holds an empty line of it.
C31_ChunkBudget ==
    (Returned("cache_doc") /\ Intact)
        => LET chunks == entry.obj.chunks
               lines == entry.obj.documentation.lines
           IN  /\ \A i \in DOMAIN chunks :
                     Len(chunks[i]) > 1 => SumLines(chunks[i]) <= chunk_size
               /\ Cardinality({i \in DOMAIN chunks : chunks[i] = <<0>>})
                     <= Cardinality({j \in DOMAIN lines : lines[j] = 0})

\* cache_doc and invalidate_cache for one repository root leave the entry of the
\* other root as it was, and a read of the other root gives what it gave before.
OtherRootsUnchanged ==
    (last'.op \in {"cache_doc", "invalidate_cache"})
        => \A b \in Roots \ {last'.arg} :
              /\ EntryAt(b, entry', other_entries') = EntryAt(b, entry, other_entries)
              /\ GetCachedDoc(EntryAt(b, entry', other_entries'), FilesOf(b, files'), now')
                    = GetCachedDoc(EntryAt(b, entry, other_entries), FilesOf(b, files), now)

\* A chunk that get_documentation_chunk does not find for the root R is not in
\* the entry that handle_file_edit reads for the files of R.
SameEntryForRoot ==
    (/\ Returned("get_documentation_chunk")
     /\ last.arg \in {ArgRoot, ArgRootSlash}
     /\ GetRepoPath(last.arg, outer_repo) # None
     /\ last.val = None)
        => GetCachedChunk(EntryOf(GetRepoPath(ArgFile(PApp), outer_repo), entry),
                          files, now, last.idx) = None

\* C32: cache_doc and invalidate_cache for a repository root leave the entry of
\* every other root and the result of reading it unchanged, and the operations
\* of the handler map the root R to one entry.
C32_Isolation == [][OtherRootsUnchanged]_vars /\ []SameEntryForRoot

====
